---- MODULE Spec2Model ----
(***************************************************************************)
(* dark-cli (src/main.rs): one run of `dark --user U --password P          *)
(* --canvas C [--dry-run] [--dev] PATHS`.                                   *)
(*                                                                         *)
(* main authenticates against the canvas host (cookie_and_csrf), walks the *)
(* path specification and builds the multipart form (form_body), then      *)
(* configures the upload POST and either prints it (dry run) or sends it.  *)
(*                                                                         *)
(* Text whose characters matter (the path specification that is split on   *)
(* ' ', file paths whose last component names the form part, the response  *)
(* body the CSRF pattern is matched against) is a sequence of one-character*)
(* strings.  A header value is a sequence of bytes.  Host, canvas and URIs *)
(* are TLA+ strings, concatenated as format! does.                         *)
(***************************************************************************)
EXTENDS Integers, Sequences, FiniteSets, TLC

VARIABLES
    paths,      \* main: the positional argument, as given
    canvas,     \* main: --canvas
    user,       \* main: --user
    password,   \* main: --password
    host,       \* main: the host selected by --dev
    dryrun,     \* main: --dry-run
    server,     \* environment: what the auth endpoint answers to the probe
    upload,     \* environment: what happens to the upload request
    pc,         \* position of main
    cookie,     \* main: cookie returned by cookie_and_csrf
    csrf,       \* main: csrf returned by cookie_and_csrf
    form,       \* main: multipart form returned by form_body
    size,       \* main: total length returned by form_body
    req,        \* main: the configured upload request
    net,        \* requests put on the wire so far, in order
    out,        \* lines printed on stdout so far, in order
    exit,       \* "running", or how the process ended: "ok", "err", "panic"
    err         \* the DarkError main returned, if any

args == <<paths, canvas, user, password, host, dryrun>>
env == <<server, upload>>
vars == <<paths, canvas, user, password, host, dryrun, server, upload,
          pc, cookie, csrf, form, size, req, net, out, exit, err>>

----------------------------------------------------------------------------
(* Bounds of the model. *)

\* root paths in one path specification
MaxRoots == 2
\* fragments an auth response body is put together from
MaxBodyParts == 2
\* Set-Cookie headers on one auth response
MaxSetCookie == 2

----------------------------------------------------------------------------
(* Sequences. *)

SeqsUpTo(S, n) == UNION {[1..k -> S] : k \in 0..n}

RECURSIVE Flatten(_)
Flatten(ss) == IF ss = <<>> THEN <<>> ELSE Head(ss) \o Flatten(Tail(ss))

RECURSIVE Join(_, _)
Join(ws, sep) ==
    IF ws = <<>> THEN <<>>
    ELSE IF Len(ws) = 1 THEN ws[1]
    ELSE ws[1] \o sep \o Join(Tail(ws), sep)

\* index of the first element of s at or after i that equals c, 0 if none
RECURSIVE IndexFrom(_, _, _)
IndexFrom(s, c, i) ==
    IF i > Len(s) THEN 0
    ELSE IF s[i] = c THEN i
    ELSE IndexFrom(s, c, i + 1)

StartsWithAt(s, p, i) ==
    /\ i + Len(p) - 1 <= Len(s)
    /\ \A k \in 1..Len(p) : s[i + k - 1] = p[k]

----------------------------------------------------------------------------
(* DarkError.  One shape for every variant, so that errors compare.        *)

NoError == [kind |-> "", status |-> 0, spec |-> <<>>]
DarkError(k) == [kind |-> k, status |-> 0, spec |-> <<>>]
Auth(code) == [kind |-> "Auth", status |-> code, spec |-> <<>>]
NoFilesFound(p) == [kind |-> "NoFilesFound", status |-> 0, spec |-> p]
Upload == DarkError("Upload")
MissingFilename == DarkError("MissingFilename")
Regex == DarkError("Regex")
MissingSetCookie == DarkError("MissingSetCookie")
\* every From<...> for DarkError conversion gives Unknown
Unknown == DarkError("Unknown")

----------------------------------------------------------------------------
(* The file system the paths are walked in.                                *)
(*                                                                         *)
(*   d/            directory                                               *)
(*   d/x           file, 1 byte                                            *)
(*   d/s/          directory                                               *)
(*   d/s/x         file, 2 bytes (same base name as d/x)                   *)
(*   d/s/y         file, 4 bytes                                           *)
(*   d/k           symbolic link to a target that does not exist           *)
(*   e/            directory                                               *)
(*   e/o/          empty directory                                         *)
(*   e/p           named pipe                                              *)
(*   f             file, 8 bytes                                           *)
(*   u             file, 16 bytes, not readable by the user                *)
(* Nothing else exists.                                                    *)

Slash == "/"
Space == " "

Dir == {<<"d">>, <<"d", Slash, "s">>, <<"e">>, <<"e", Slash, "o">>}
Pipe == {<<"e", Slash, "p">>}
BrokenLink == {<<"d", Slash, "k">>}
Unreadable == {<<"u">>}

FileLen(p) ==
    CASE p = <<"d", Slash, "x">> -> 1
      [] p = <<"d", Slash, "s", Slash, "x">> -> 2
      [] p = <<"d", Slash, "s", Slash, "y">> -> 4
      [] p = <<"f">> -> 8
      [] p = <<"u">> -> 16
      [] OTHER -> 0

RegularFile ==
    {<<"d", Slash, "x">>, <<"d", Slash, "s", Slash, "x">>,
     <<"d", Slash, "s", Slash, "y">>, <<"f">>, <<"u">>}

\* names in a directory, in the order the directory is read
ReadDir(p) ==
    CASE p = <<"d">> -> <<"x", "s", "k">>
      [] p = <<"d", Slash, "s">> -> <<"x", "y">>
      [] p = <<"e">> -> <<"o", "p">>
      [] OTHER -> <<>>

\* the type of what the path leads to, symbolic links followed
FileType(p) ==
    IF p \in BrokenLink THEN "none"
    ELSE IF p \in Dir THEN "dir"
    ELSE IF p \in RegularFile THEN "file"
    ELSE IF p \in Pipe THEN "fifo"
    ELSE "none"

\* WalkDir::new(root).follow_links(true).into_iter(): the root first, then
\* each directory's entries depth first; what cannot be read is an Err item.
RECURSIVE WalkDir(_)
WalkDir(p) ==
    IF FileType(p) = "none"
    THEN <<[ok |-> FALSE, path |-> p, file_type |-> "none"]>>
    ELSE <<[ok |-> TRUE, path |-> p, file_type |-> FileType(p)]>>
         \o Flatten([i \in 1..Len(ReadDir(p)) |->
                        WalkDir(p \o <<Slash, ReadDir(p)[i]>>)])

\* DirEntry::metadata(): a stat of the path; it needs no read permission
metadata(p) == [ok |-> FileType(p) # "none", len |-> FileLen(p)]

\* Path::file_name(): the last component, None when the path is empty or
\* ends in ".."
RECURSIVE LastSlash(_, _)
LastSlash(p, i) ==
    IF i = 0 THEN 0 ELSE IF p[i] = Slash THEN i ELSE LastSlash(p, i - 1)

file_name(p) ==
    LET k == LastSlash(p, Len(p))
        name == SubSeq(p, k + 1, Len(p))
    IN  IF name = <<>> \/ name = <<".", ".">>
        THEN [some |-> FALSE, name |-> <<>>]
        ELSE [some |-> TRUE, name |-> name]

\* Form::file as a form that keeps one part per name: a part added under a
\* name already present takes the earlier part's place
FormFile_replace(f, name, p) ==
    LET NotNamed(part) == part.name # name
    IN  IF p \in Unreadable
        THEN [ok |-> FALSE, form |-> f]
        ELSE [ok |-> TRUE,
              form |-> Append(SelectSeq(f, NotNamed),
                              [name |-> name,
                               filename |-> file_name(p).name,
                               path |-> p])]

\* multipart::Form::file(name, path): opens the file and adds it as a part
\* named `name`, with the path's file name as the part's filename
FormFile(f, name, p) ==
    IF p \in Unreadable
    THEN [ok |-> FALSE, form |-> f]
    ELSE [ok |-> TRUE,
          form |-> Append(f, [name |-> name,
                              filename |-> file_name(p).name,
                              path |-> p])]

----------------------------------------------------------------------------
(* form_body *)

\* str::split(' '): the pieces between the spaces, empty pieces included
RECURSIVE split(_)
split(s) ==
    LET i == IndexFrom(s, Space, 1)
    IN  IF i = 0 THEN <<s>>
        ELSE <<SubSeq(s, 1, i - 1)>> \o split(SubSeq(s, i + 1, Len(s)))

IsOk(e) == e.ok
IsFile(e) == e.file_type = "file"

\* the `files` iterator of form_body
files(p) ==
    LET roots == split(p)
        walked == Flatten([i \in 1..Len(roots) |-> WalkDir(roots[i])])
    IN  SelectSeq(SelectSeq(walked, IsOk), IsFile)

\* the for loop of form_body from the i-th file on; `lines` is what it prints
RECURSIVE FormLoop(_, _, _, _, _)
FormLoop(fs, i, len, f, lines) ==
    IF i > Len(fs)
    THEN [ok |-> TRUE, form |-> f, len |-> len, lines |-> lines, err |-> NoError]
    ELSE
        LET file == fs[i]
            md == metadata(file.path)
            fname == file_name(file.path)
            line == [what |-> "File", text |-> fname.name]
            added == FormFile(f, fname.name, file.path)
            Fail(e, ls) ==
                [ok |-> FALSE, form |-> <<>>, len |-> 0, lines |-> ls, err |-> e]
        IN  IF ~md.ok THEN Fail(Unknown, lines)
            ELSE IF ~fname.some THEN Fail(MissingFilename, lines)
            ELSE IF ~added.ok THEN Fail(Unknown, Append(lines, line))
            ELSE FormLoop(fs, i + 1, len + md.len, added.form, Append(lines, line))

\* form_body reporting only the first root path when nothing is found
form_body_first_root(p) ==
    IF files(p) = <<>>
    THEN [ok |-> FALSE, form |-> <<>>, len |-> 0, lines |-> <<>>,
          err |-> NoFilesFound(split(p)[1])]
    ELSE FormLoop(files(p), 1, 0, <<>>, <<>>)

form_body(p) ==
    IF files(p) = <<>>
    THEN [ok |-> FALSE, form |-> <<>>, len |-> 0, lines |-> <<>>,
          err |-> NoFilesFound(p)]
    ELSE FormLoop(files(p), 1, 0, <<>>, <<>>)

----------------------------------------------------------------------------
(* cookie_and_csrf *)

StatusOK == 200

Quote == "\""

\* the literal text of csrf_re before its group: const csrfToken = "
csrf_prefix ==
    <<"c", "o", "n", "s", "t", " ", "c", "s", "r", "f", "T", "o", "k", "e", "n",
      " ", "=", " ", Quote>>

NoMatch == [some |-> FALSE, group |-> <<>>]

\* the match of  const csrfToken = "([^"]*)";  that starts at index i:
\* the group runs to the next quote, which a semicolon has to follow
MatchAt(body, i) ==
    LET from == i + Len(csrf_prefix)
        q == IndexFrom(body, Quote, from)
    IN  IF /\ StartsWithAt(body, csrf_prefix, i)
           /\ q # 0
           /\ q < Len(body)
           /\ body[q + 1] = ";"
        THEN [some |-> TRUE, group |-> SubSeq(body, from, q - 1)]
        ELSE NoMatch

\* a scan that stops at the first place the literal text occurs, whether or
\* not the pattern matches there
RECURSIVE captures_first_prefix(_, _)
captures_first_prefix(body, i) ==
    IF i > Len(body) THEN NoMatch
    ELSE IF StartsWithAt(body, csrf_prefix, i) THEN MatchAt(body, i)
    ELSE captures_first_prefix(body, i + 1)

\* csrf_re.captures_iter(body).next(): the leftmost match at or after i
RECURSIVE captures_next(_, _)
captures_next(body, i) ==
    IF i > Len(body) THEN NoMatch
    ELSE IF MatchAt(body, i).some THEN MatchAt(body, i)
    ELSE captures_next(body, i + 1)

\* HeaderValue::to_str(): the bytes as a str, an error unless every byte is
\* visible ASCII or a tab
IsVisibleAscii(b) == (b >= 32 /\ b < 127) \/ b = 9

to_str(v) ==
    IF \A i \in 1..Len(v) : IsVisibleAscii(v[i])
    THEN [ok |-> TRUE, str |-> v]
    ELSE [ok |-> FALSE, str |-> <<>>]

\* headers().get(SET_COOKIE): the first Set-Cookie header, if any
GetSetCookie(authresp) ==
    IF authresp.set_cookie = <<>>
    THEN [some |-> FALSE, value |-> <<>>]
    ELSE [some |-> TRUE, value |-> authresp.set_cookie[1]]

AuthOk(c, t) == [tag |-> "Ok", cookie |-> c, csrf |-> t, err |-> NoError]
AuthErr(e) == [tag |-> "Err", cookie |-> <<>>, csrf |-> <<>>, err |-> e]
AuthPanic == [tag |-> "Panic", cookie |-> <<>>, csrf |-> <<>>, err |-> NoError]

\* cookie_and_csrf with `.send()?` in place of the match that panics
cookie_and_csrf_try(authresp) ==
    IF ~authresp.sent THEN AuthErr(Unknown)
    ELSE IF authresp.status # StatusOK THEN AuthErr(Auth(authresp.status))
    ELSE IF ~GetSetCookie(authresp).some THEN AuthErr(MissingSetCookie)
    ELSE IF ~to_str(GetSetCookie(authresp).value).ok THEN AuthErr(Unknown)
    ELSE IF ~authresp.text_ok THEN AuthErr(Unknown)
    ELSE IF ~captures_next(authresp.body, 1).some THEN AuthErr(Regex)
    ELSE AuthOk(to_str(GetSetCookie(authresp).value).str,
                captures_next(authresp.body, 1).group)

\* cookie_and_csrf accepting every 2xx status (status().is_success())
cookie_and_csrf_is_success(authresp) ==
    IF ~authresp.sent THEN AuthPanic
    ELSE IF authresp.status < 200 \/ authresp.status > 299
    THEN AuthErr(Auth(authresp.status))
    ELSE IF ~GetSetCookie(authresp).some THEN AuthErr(MissingSetCookie)
    ELSE IF ~to_str(GetSetCookie(authresp).value).ok THEN AuthErr(Unknown)
    ELSE IF ~authresp.text_ok THEN AuthErr(Unknown)
    ELSE IF ~captures_next(authresp.body, 1).some THEN AuthErr(Regex)
    ELSE AuthOk(to_str(GetSetCookie(authresp).value).str,
                captures_next(authresp.body, 1).group)

\* cookie_and_csrf looking for the token before it looks for the cookie
cookie_and_csrf_token_first(authresp) ==
    IF ~authresp.sent THEN AuthPanic
    ELSE IF authresp.status # StatusOK THEN AuthErr(Auth(authresp.status))
    ELSE IF ~authresp.text_ok THEN AuthErr(Unknown)
    ELSE IF ~captures_next(authresp.body, 1).some THEN AuthErr(Regex)
    ELSE IF ~GetSetCookie(authresp).some THEN AuthErr(MissingSetCookie)
    ELSE IF ~to_str(GetSetCookie(authresp).value).ok THEN AuthErr(Unknown)
    ELSE AuthOk(to_str(GetSetCookie(authresp).value).str,
                captures_next(authresp.body, 1).group)

\* what cookie_and_csrf does with the outcome of its GET
cookie_and_csrf(authresp) ==
    IF ~authresp.sent THEN AuthPanic
    ELSE IF authresp.status # StatusOK THEN AuthErr(Auth(authresp.status))
    ELSE IF ~GetSetCookie(authresp).some THEN AuthErr(MissingSetCookie)
    ELSE IF ~to_str(GetSetCookie(authresp).value).ok THEN AuthErr(Unknown)
    ELSE IF ~authresp.text_ok THEN AuthErr(Unknown)
    ELSE IF ~captures_next(authresp.body, 1).some THEN AuthErr(Regex)
    ELSE AuthOk(to_str(GetSetCookie(authresp).value).str,
                captures_next(authresp.body, 1).group)

\* the GET of cookie_and_csrf
AuthRequest(h, c, u, pw) ==
    [method |-> "GET", uri |-> h \o "/a/" \o c, user |-> u, password |-> pw,
     cookie |-> <<>>, csrf |-> <<>>, form |-> <<>>]

----------------------------------------------------------------------------
(* main *)

Prod == "https://darklang.com"
Dev == "http://darklang.localhost:8000"

NoRequest ==
    [method |-> "", uri |-> "", user |-> "", password |-> "",
     cookie |-> <<>>, csrf |-> <<>>, form |-> <<>>]

\* the upload request without its x-csrf-token header
UploadRequest_no_csrf(h, c, ck, tk) ==
    [method |-> "POST", uri |-> h \o "/api/" \o c \o "/static_assets",
     user |-> "", password |-> "", cookie |-> ck, csrf |-> <<>>, form |-> <<>>]

\* client.post(&requri).header("cookie", cookie).header("x-csrf-token", csrf)
UploadRequest(h, c, ck, tk) ==
    [method |-> "POST", uri |-> h \o "/api/" \o c \o "/static_assets",
     user |-> "", password |-> "", cookie |-> ck, csrf |-> tk, form |-> <<>>]

Exit(how, e) == exit' = how /\ err' = e

\* let (cookie, csrf) = cookie_and_csrf(...)?;
Authenticate ==
    /\ exit = "running" /\ pc = "cookie_and_csrf"
    /\ net' = Append(net, AuthRequest(host, canvas, user, password))
    /\ LET r == cookie_and_csrf(server)
       IN  /\ cookie' = r.cookie
           /\ csrf' = r.csrf
           /\ IF r.tag = "Ok"
              THEN pc' = "form_body" /\ UNCHANGED <<exit, err>>
              ELSE /\ pc' = pc
                   /\ Exit(IF r.tag = "Panic" THEN "panic" ELSE "err", r.err)
    /\ UNCHANGED <<args, env, form, size, req, out>>

\* main going on with an empty form when form_body fails
Collect_continue ==
    /\ exit = "running" /\ pc = "form_body"
    /\ LET r == form_body(paths)
       IN  /\ out' = out \o r.lines
           /\ form' = r.form
           /\ size' = r.len
           /\ pc' = "request"
    /\ UNCHANGED <<args, env, cookie, csrf, req, net, exit, err>>

\* let (form, size) = form_body(&paths.to_string())?;
Collect ==
    /\ exit = "running" /\ pc = "form_body"
    /\ LET r == form_body(paths)
       IN  /\ out' = out \o r.lines
           /\ form' = r.form
           /\ size' = r.len
           /\ IF r.ok
              THEN pc' = "request" /\ UNCHANGED <<exit, err>>
              ELSE pc' = pc /\ Exit("err", r.err)
    /\ UNCHANGED <<args, env, cookie, csrf, req, net>>

\* the size line, the client and the configured request.  file_size(DECIMAL)
\* fails for negative numbers only, and size is a u64; the client is built as
\* the Client::new() of cookie_and_csrf was, which did not fail.
Configure ==
    /\ exit = "running" /\ pc = "request"
    /\ out' = Append(out, [what |-> "Total", text |-> <<size>>])
    /\ req' = UploadRequest(host, canvas, cookie, csrf)
    /\ pc' = "send"
    /\ UNCHANGED <<args, env, cookie, csrf, form, size, net, exit, err>>

\* if dryrun { println!(req); println!(form) }
DryRun ==
    /\ exit = "running" /\ pc = "send"
    /\ dryrun
    /\ out' = out \o <<[what |-> "Request", text |-> <<req>>],
                       [what |-> "Form", text |-> form]>>
    /\ pc' = "end"
    /\ Exit("ok", NoError)
    /\ UNCHANGED <<args, env, cookie, csrf, form, size, req, net>>

\* the upload sent whether or not --dry-run was given
Send_unconditional ==
    /\ exit = "running" /\ pc = "send"
    /\ net' = Append(net, [req EXCEPT !.form = form])
    /\ IF ~upload.sent
       THEN pc' = pc /\ Exit("err", Upload) /\ out' = out
       ELSE IF ~upload.text_ok
       THEN pc' = pc /\ Exit("err", Unknown) /\ out' = out
       ELSE /\ out' = Append(out, [what |-> "Response", text |-> upload.body])
            /\ pc' = "end"
            /\ Exit("ok", NoError)
    /\ UNCHANGED <<args, env, cookie, csrf, form, size, req>>

\* else { req.multipart(form).send()...?; println!(resp.text()?) }
Send ==
    /\ exit = "running" /\ pc = "send"
    /\ ~dryrun
    /\ net' = Append(net, [req EXCEPT !.form = form])
    /\ IF ~upload.sent
       THEN pc' = pc /\ Exit("err", Upload) /\ out' = out
       ELSE IF ~upload.text_ok
       THEN pc' = pc /\ Exit("err", Unknown) /\ out' = out
       ELSE /\ out' = Append(out, [what |-> "Response", text |-> upload.body])
            /\ pc' = "end"
            /\ Exit("ok", NoError)
    /\ UNCHANGED <<args, env, cookie, csrf, form, size, req>>

Next == Authenticate \/ Collect \/ Configure \/ DryRun \/ Send

----------------------------------------------------------------------------
(* The inputs of a run. *)

\* root paths a path specification is made of; "n" does not exist
RootNames ==
    {<<"d">>, <<"d", Slash, "s">>, <<"e">>, <<"f">>, <<"u">>, <<"n">>, <<>>}

PathSpecs ==
    {Join(ws, <<Space>>) : ws \in SeqsUpTo(RootNames, MaxRoots) \ {<<>>}}

\* Set-Cookie values: "s=1", "t=2", and "s=" followed by the byte 0xE9
HeaderValues == {<<115, 61, 49>>, <<116, 61, 50>>, <<115, 61, 233>>}

Statuses == {200, 204, 401}

BodyParts ==
    {csrf_prefix \o <<"a", Quote, ";">>,
     csrf_prefix \o <<"b", Quote, ";">>,
     csrf_prefix \o <<Quote, ";">>,
     csrf_prefix \o <<"a", Quote>>,
     csrf_prefix \o <<"a">>,
     <<"x">>,
     <<Quote, ";">>}

Bodies == {Flatten(ps) : ps \in SeqsUpTo(BodyParts, MaxBodyParts)}

\* the GET did not get a response (connection refused, TLS, DNS)
TransportFailure ==
    [sent |-> FALSE, status |-> 0, set_cookie |-> <<>>, body |-> <<>>,
     text_ok |-> FALSE]

Response(st, sc, b, t) ==
    [sent |-> TRUE, status |-> st, set_cookie |-> sc, body |-> b, text_ok |-> t]

Servers ==
    {TransportFailure}
    \cup {Response(st, sc, b, t) :
            st \in Statuses, sc \in SeqsUpTo(HeaderValues, MaxSetCookie),
            b \in Bodies, t \in BOOLEAN}

TokenA == csrf_prefix \o <<"a", Quote, ";">>
TokenB == csrf_prefix \o <<"b", Quote, ";">>

SampleServers ==
    {TransportFailure,
     Response(401, <<>>, TokenA, TRUE),
     Response(200, <<>>, TokenA, TRUE),
     Response(200, <<<<115, 61, 233>>>>, TokenA, TRUE),
     Response(200, <<<<115, 61, 49>>>>, <<"x">>, TRUE),
     Response(200, <<<<115, 61, 49>>>>, TokenA, FALSE),
     Response(200, <<<<115, 61, 49>>, <<116, 61, 50>>>>, TokenA \o TokenB, TRUE),
     Response(200, <<<<116, 61, 50>>>>, <<"x">> \o TokenB, TRUE)}

Uploads ==
    {[sent |-> s, text_ok |-> t, body |-> <<"o", "k">>] :
        s \in BOOLEAN, t \in BOOLEAN}

Start ==
    /\ pc = "cookie_and_csrf"
    /\ exit = "running"
    /\ cookie = <<>> /\ csrf = <<>>
    /\ form = <<>> /\ size = 0
    /\ req = NoRequest
    /\ net = <<>> /\ out = <<>>
    /\ err = NoError
    /\ user = "alice" /\ password = "secret"

\* whole runs: every path specification against each kind of auth answer
Init ==
    /\ Start
    /\ paths \in PathSpecs
    /\ canvas \in {"demo", "blog"}
    /\ host \in {Prod, Dev}
    /\ dryrun \in BOOLEAN
    /\ server \in SampleServers
    /\ upload \in Uploads

Spec == Init /\ [][Next]_vars

\* cookie_and_csrf on every auth answer, the rest of the run fixed
InitAuth ==
    /\ Start
    /\ paths = <<"f">>
    /\ canvas = "demo"
    /\ host = Prod
    /\ dryrun \in BOOLEAN
    /\ server \in Servers
    /\ upload = [sent |-> TRUE, text_ok |-> TRUE, body |-> <<"o", "k">>]

SpecAuth == InitAuth /\ [][Next]_vars

----------------------------------------------------------------------------
(* What the properties below speak of. *)

IsGet(r) == r.method = "GET"
IsPost(r) == r.method = "POST"
Gets == SelectSeq(net, IsGet)
Posts == SelectSeq(net, IsPost)

\* cookie_and_csrf was called and is over
AuthReturned == pc # "cookie_and_csrf" \/ exit # "running"
\* cookie_and_csrf returned Ok
AuthSucceeded == pc # "cookie_and_csrf"
\* form_body was called and is over
CollectReturned ==
    pc \in {"request", "send", "end"} \/ (pc = "form_body" /\ exit # "running")
\* form_body returned Ok
CollectOk == pc \in {"request", "send", "end"}

\* the pattern  const csrfToken = "([^"]*)";  matches at index i with group g
PatternAt(body, i, g) ==
    /\ \A k \in 1..Len(g) : g[k] # Quote
    /\ StartsWithAt(body, csrf_prefix \o g \o <<Quote, ";">>, i)

PatternMatchesAt(body, i) ==
    /\ StartsWithAt(body, csrf_prefix, i)
    /\ \E n \in 0..Len(body) :
          /\ i + Len(csrf_prefix) + n - 1 <= Len(body)
          /\ PatternAt(body, i, SubSeq(body, i + Len(csrf_prefix),
                                       i + Len(csrf_prefix) + n - 1))

Occurs(body) == \E i \in 1..Len(body) : PatternMatchesAt(body, i)

\* g is the group of the first occurrence of the pattern in body
FirstGroup(body, g) ==
    \E i \in 1..Len(body) :
        /\ PatternAt(body, i, g)
        /\ \A j \in 1..(i - 1) : ~PatternMatchesAt(body, j)

\* the root paths of the path specification: its pieces between spaces
Roots ==
    {SubSeq(paths, x[1], x[2]) :
        x \in {y \in (1..(Len(paths) + 1)) \X (0..Len(paths)) :
                 /\ y[1] <= y[2] + 1
                 /\ \A k \in y[1]..y[2] : paths[k] # Space
                 /\ y[1] = 1 \/ paths[y[1] - 1] = Space
                 /\ y[2] = Len(paths) \/ paths[y[2] + 1] = Space}}

\* the regular file f lies under the root path r
Under(f, r) == f = r \/ (r \in Dir /\ StartsWithAt(f, r \o <<Slash>>, 1))

\* the set of regular files under the root paths
FilesUnderRoots == {f \in RegularFile : \E r \in Roots : Under(f, r)}

RECURSIVE SumLen(_)
SumLen(S) ==
    IF S = {} THEN 0
    ELSE LET f == CHOOSE x \in S : TRUE
         IN  FileLen(f) + SumLen(S \ {f})

\* name is the base name of path p
BaseName(p, name) ==
    /\ name # <<>>
    /\ \A k \in 1..Len(name) : name[k] # Slash
    /\ \/ p = name
       \/ \E pre \in 1..Len(p) :
            /\ p[pre] = Slash
            /\ p = SubSeq(p, 1, pre) \o name

----------------------------------------------------------------------------
(* Properties. *)

\* C1, as stated: the stages run collect, authenticate, build, send, so on
\* every run where file collection fails (NoFilesFound or MissingFilename)
\* no auth probe GET and no upload POST has been issued.
C1_CollectFailsBeforeAnyRequest ==
    (exit = "err" /\ err.kind \in {"NoFilesFound", "MissingFilename"})
        => net = <<>>

\* C1, amended: the stages run authenticate, collect and build, send, and a
\* failure in a stage ends the run before any network side effect of a later
\* stage.  When authentication fails only the GET has been issued, no file
\* has been looked at and no form exists; when file collection fails the GET
\* has been issued and no POST; a POST is only ever the second request, after
\* the GET, carrying the form that was built.
C1_StagesInOrder ==
    /\ (pc = "cookie_and_csrf" /\ exit = "running") => (net = <<>> /\ out = <<>>)
    /\ (pc = "cookie_and_csrf" /\ exit # "running")
          => (Len(net) = 1 /\ IsGet(net[1]) /\ out = <<>> /\ form = <<>>)
    /\ (pc = "form_body" /\ exit = "err")
          => (Len(net) = 1 /\ IsGet(net[1]) /\ form = <<>>)
    /\ out # <<>> => (net # <<>> /\ IsGet(net[1]))
    /\ \A i \in 1..Len(net) :
          IsPost(net[i])
              => /\ i = 2 /\ IsGet(net[1])
                 /\ pc \in {"send", "end"}
                 /\ form # <<>> /\ net[i].form = form

C1_Witness ==
    /\ pc = "form_body" /\ exit = "err" /\ err.kind = "NoFilesFound"
    /\ Len(net) = 1 /\ IsGet(net[1])

\* C2: when --dry-run is given no upload POST is ever issued, whatever was
\* collected and whatever the auth probe returned; a dry run that gets to the
\* end has printed the configured request and then the form.
C2_DryRunNeverPosts ==
    dryrun =>
        /\ Posts = <<>>
        /\ exit = "ok" =>
              /\ Len(out) >= 2
              /\ out[Len(out) - 1].what = "Request"
              /\ out[Len(out) - 1].text = <<UploadRequest(host, canvas, cookie, csrf)>>
              /\ out[Len(out)].what = "Form"
              /\ out[Len(out)].text = form
              /\ form # <<>>

C2_Witness ==
    /\ dryrun /\ exit = "ok" /\ pc = "end"
    /\ Len(form) = 6 /\ Len(net) = 1

C4_TransportFailureIsReturned ==
    (~server.sent /\ AuthReturned)
        => (exit = "err" /\ err.kind = "TransportFailure" /\ Posts = <<>>)

\* C4, amended: a transport failure of the auth GET makes cookie_and_csrf
\* panic: main gets no error value, and the process ends there with only the
\* GET issued, no file looked at and no POST.  Nothing else panics.
C4_TransportFailurePanics ==
    /\ (~server.sent /\ AuthReturned)
          => /\ exit = "panic" /\ err = NoError
             /\ pc = "cookie_and_csrf"
             /\ Len(net) = 1 /\ IsGet(net[1])
             /\ out = <<>> /\ form = <<>>
    /\ exit = "panic" => ~server.sent

C4_Witness == ~server.sent /\ exit = "panic" /\ Len(net) = 1

\* C5: for every auth answer whose status is not 200, cookie_and_csrf fails
\* with Auth carrying that status, whatever the headers and the body, and
\* gives no cookie and no token.
C5_NonOkStatusIsAuthFailure ==
    (server.sent /\ server.status # 200 /\ AuthReturned)
        => /\ pc = "cookie_and_csrf" /\ exit = "err"
           /\ err.kind = "Auth" /\ err.status = server.status
           /\ cookie = <<>> /\ csrf = <<>>
           /\ Posts = <<>>

C5_Witness ==
    /\ server.sent /\ server.status = 401
    /\ server.set_cookie # <<>> /\ Occurs(server.body) /\ server.text_ok
    /\ err.kind = "Auth" /\ err.status = 401

\* C6, as stated: for every auth answer without a Set-Cookie header,
\* cookie_and_csrf fails with MissingSetCookie.
C6_NoSetCookieAlwaysMissingCookie ==
    (server.sent /\ server.set_cookie = <<>> /\ AuthReturned)
        => (exit = "err" /\ err.kind = "MissingSetCookie")

\* C6, amended: for every auth answer with status 200 and without a
\* Set-Cookie header, cookie_and_csrf fails with MissingSetCookie whether or
\* not the body holds a token; when cookie_and_csrf succeeds the cookie is the
\* value of the first Set-Cookie header, byte for byte.
C6_MissingSetCookieOn200 ==
    /\ (server.sent /\ server.status = 200 /\ server.set_cookie = <<>>
            /\ AuthReturned)
          => /\ pc = "cookie_and_csrf" /\ exit = "err"
             /\ err.kind = "MissingSetCookie"
             /\ cookie = <<>> /\ csrf = <<>>
    /\ AuthSucceeded
          => (server.set_cookie # <<>> /\ cookie = server.set_cookie[1])

C6_Witness ==
    /\ server.sent /\ server.status = 200 /\ server.set_cookie = <<>>
    /\ Occurs(server.body) /\ server.text_ok
    /\ err.kind = "MissingSetCookie"

\* a byte of a header value that to_str accepts
Visible(b) == b = 9 \/ b \in 32..126

\* C7, as stated: for every 200 answer with a Set-Cookie header and a body,
\* the token is the group of the first occurrence of the pattern in the body,
\* and without an occurrence cookie_and_csrf fails with Regex.
C7_TokenOrRegexError ==
    (server.sent /\ server.status = 200 /\ server.set_cookie # <<>>
        /\ server.text_ok
        /\ AuthReturned)
        => IF Occurs(server.body)
           THEN AuthSucceeded /\ FirstGroup(server.body, csrf)
           ELSE exit = "err" /\ err.kind = "Regex"

\* C7, amended: for every 200 answer whose first Set-Cookie value is visible
\* ASCII and whose body could be read, the token is the group of the first
\* occurrence of the pattern in the body (later occurrences are ignored), and
\* without an occurrence cookie_and_csrf fails with Regex.
C7_TokenOrRegexErrorWhenReadable ==
    (server.sent /\ server.status = 200 /\ server.set_cookie # <<>>
        /\ (\A k \in 1..Len(server.set_cookie[1]) :
                Visible(server.set_cookie[1][k]))
        /\ server.text_ok
        /\ AuthReturned)
        => IF Occurs(server.body)
           THEN AuthSucceeded /\ FirstGroup(server.body, csrf)
           ELSE /\ pc = "cookie_and_csrf" /\ exit = "err"
                /\ err.kind = "Regex"

\* the body  const csrfToken = "aconst csrfToken = "b";  : the pattern does
\* not match where the text first occurs, and matches further on
C7_Witness ==
    /\ server.sent /\ server.status = 200
    /\ server.body = csrf_prefix \o <<"a">> \o csrf_prefix \o <<"b", Quote, ";">>
    /\ AuthSucceeded /\ csrf = <<"b">>

\* C8: when form_body returns, the form is not empty and the total is the sum
\* of the sizes of the regular files under the root paths, each file counted
\* once, also when root paths repeat or contain one another.
C8_TotalCountsEachFileOnce ==
    CollectOk => (form # <<>> /\ size = SumLen(FilesUnderRoots))

\* C9: when no regular file lies under any root path of the path
\* specification, form_body fails with NoFilesFound carrying the path
\* specification as it was given, and there is no form.
C9_NoFilesFound ==
    (CollectReturned /\ FilesUnderRoots = {})
        => /\ pc = "form_body" /\ exit = "err"
           /\ err.kind = "NoFilesFound" /\ err.spec = paths
           /\ form = <<>> /\ Posts = <<>>

\* an empty directory tree with a pipe in it, and a path that does not exist
C9_Witness ==
    /\ paths = <<"e", Space, "n">>
    /\ exit = "err" /\ err.kind = "NoFilesFound" /\ err.spec = paths

\* C10: the form has one part per file entry, in the order of the entries,
\* each part named by the base name of its entry; entries with the same base
\* name each keep their part.
C10_OnePartPerEntry ==
    CollectOk =>
        /\ Len(form) = Len(files(paths))
        /\ \A i \in 1..Len(form) :
              /\ form[i].path = files(paths)[i].path
              /\ BaseName(files(paths)[i].path, form[i].name)
              /\ form[i].filename = form[i].name

\* d/x, d/s/x and d/s/y give the parts x, x, y
C10_Witness ==
    /\ paths = <<"d">> /\ CollectOk
    /\ Len(form) = 3
    /\ form[1].name = <<"x">> /\ form[2].name = <<"x">> /\ form[3].name = <<"y">>
    /\ form[1].path # form[2].path

====
